---- MODULE Spec2Model ----
(***************************************************************************)
(* Model of the fastapi_clawcloud service: the manifest extractor          *)
(* (app/utils.py extract_m3u8), the stream downloader                      *)
(* (app/utils.py download_m3u8), the two POST handlers of app/main.py      *)
(* running on one asyncio event loop, and the transcoder of                *)
(* app/utils_compression_bkp.py (compress_video).                          *)
(***************************************************************************)
EXTENDS Integers, Sequences, FiniteSets, TLC

VARIABLES
    \* ---- extract_m3u8 (one call) ----
    step,        \* position inside extract_m3u8 / try_navigate
    attempt,     \* the `attempt` argument of the running try_navigate (0 before the first)
    m3u8_links,  \* the accumulator of the running try_navigate
    result,      \* the local `result` of extract_m3u8 (value of the last try_navigate)
    ret,         \* what extract_m3u8 handed to its caller
    attempts,    \* history: the timeout_ms of every try_navigate call started
    sessions,    \* history: number of browsers launched
    seen,        \* history: response URLs observed by the running attempt, in order
    outcome,     \* history: how each attempt ended
    acc,         \* history: the accumulator of each attempt when it ended
    seenEnd      \* history: the responses each attempt had observed when it ended

VARIABLES
    \* ---- compress_video (one call) ----
    cpc,          \* position inside compress_video
    inputExists,  \* os.path.exists(input_path)
    inputBytes,   \* size of the input file on disk (0 when absent)
    outputExists, \* os.path.exists(output_path)
    outputBytes,  \* size of the output file on disk (0 when absent)
    input_size,   \* the local input_size
    output_size,  \* the local output_size
    cret,         \* return value: "pending", "True" or "False"
    encoderRuns,  \* history: encoder subprocesses started
    cwhy,         \* history: which return statement ended the call
    inputBefore,  \* history: did the input exist when the call began
    bytesBefore,  \* history: size of the input when the call began
    probed,       \* history: how the duration probe ended ("none" if not run)
    rc            \* history: how the encoder exited ("none" if it did not run)

exVars == <<step, attempt, m3u8_links, result, ret, attempts, sessions, seen,
            outcome, acc, seenEnd>>

coVars == <<cpc, inputExists, inputBytes, outputExists, outputBytes, input_size,
            output_size, cret, encoderRuns, cwhy, inputBefore, bytesBefore,
            probed, rc>>

VARIABLES
    \* ---- the HTTP service: requests on one event loop, and the disk ----
    files,   \* the artifact files under DATA_DIR: path -> content
    reqs,    \* the requests being handled: number -> handler frame
    n,       \* number of requests received so far
    last     \* the response just sent (NoResponse after any other step)

svVars == <<files, reqs, n, last>>

vars == <<exVars, coVars, svVars>>

-----------------------------------------------------------------------------
(* Bounds *)
MaxResponses == 2      \* network responses observed per attempt
MaxBytes == 3          \* largest file size
MaxRequests == 3       \* requests received by the service

(* Program constants *)
Timeout1 == 60000
Timeout2 == 90000

-----------------------------------------------------------------------------
(* Values *)

\* A URL is a sequence of text pieces; `".m3u8" in url` is a substring test,
\* here: one of the pieces is the manifest suffix.
Urls == { <<"cdn/a", ".m3u8">>,
          <<"cdn/b", ".m3u8", "?t=1">>,
          <<"cdn/seg1", ".ts">> }

\* Python values of try_navigate / extract_m3u8: None or a list.
None == [isNone |-> TRUE, links |-> <<>>]
List(l) == [isNone |-> FALSE, links |-> l]
Pending == [isNone |-> TRUE, links |-> <<"pending">>]

Exceptions == {"PlaywrightTimeoutError", "Exception"}

-----------------------------------------------------------------------------
(* extract_m3u8 *)

IsManifest(url) == \E i \in DOMAIN url : url[i] = ".m3u8"

handle_response_dedup(links, url) ==
    IF IsManifest(url) /\ ~(\E i \in DOMAIN links : links[i] = url)
    THEN Append(links, url) ELSE links

\* utils.py 29-32
handle_response(links, url) ==
    IF IsManifest(url) THEN Append(links, url) ELSE links

except_return_partial(exc, links) == [caught |-> TRUE, value |-> List(links)]

\* utils.py 66-71: both except clauses return None; nothing is re-raised
except_return(exc, links) ==
    IF exc = "PlaywrightTimeoutError" THEN [caught |-> TRUE, value |-> None]
    ELSE [caught |-> TRUE, value |-> None]

returns_first_always(r) == ~r.isNone

\* utils.py 74: `if result is not None and result`
returns_first(r) == ~r.isNone /\ r.links # <<>>

final_result_raw(r) == r

\* utils.py 79: `return result if result is not None else []`
final_result(r) == IF ~r.isNone THEN r ELSE List(<<>>)

\* utils.py 73-79 as a function of the two try_navigate values
extract_m3u8(r1, r2) == IF returns_first(r1) THEN r1 ELSE final_result(r2)

\* Steps of try_navigate during which the page can deliver response events
\* (the observer is registered at line 34, before goto).
Listening == {"goto", "wait3", "evaluate", "query", "click", "wait5", "close"}
TrySteps == {"launch"} \cup Listening

AfterAttempt(a) == IF a = 1 THEN "decide" ELSE "final"

\* utils.py 73 / 78: call try_navigate; lines 18-27 run up to the launch
StartAttempt(a, timeout_ms) ==
    /\ attempt' = a
    /\ attempts' = Append(attempts, timeout_ms)
    /\ step' = "launch"
    /\ m3u8_links' = <<>>
    /\ seen' = <<>>

\* utils.py 73
CallFirst ==
    /\ step = "call"
    /\ StartAttempt(1, Timeout1)
    /\ UNCHANGED <<result, ret, sessions, outcome, acc, seenEnd>>

\* utils.py 18-34: browser, context, page, empty accumulator, observer
Launch ==
    /\ step = "launch"
    /\ sessions' = sessions + 1
    /\ step' = "goto"
    /\ UNCHANGED <<attempt, m3u8_links, result, ret, attempts, seen, outcome, acc, seenEnd>>

\* a response event delivered to handle_response
HandleResponse ==
    /\ step \in Listening
    /\ Len(seen) < MaxResponses
    /\ \E url \in Urls :
          /\ seen' = Append(seen, url)
          /\ m3u8_links' = handle_response(m3u8_links, url)
    /\ UNCHANGED <<step, attempt, result, ret, attempts, sessions, outcome, acc, seenEnd>>

Advance(from, to) ==
    /\ step = from
    /\ step' = to
    /\ UNCHANGED <<attempt, m3u8_links, result, ret, attempts, sessions, seen,
                   outcome, acc, seenEnd>>

\* utils.py 37
Goto == Advance("goto", "wait3")
\* utils.py 39
Wait3 == Advance("wait3", "evaluate")
\* utils.py 41-47
Evaluate == Advance("evaluate", "query")
\* utils.py 49-51, 57-58
QuerySelector == \E found \in BOOLEAN : Advance("query", IF found THEN "click" ELSE "wait5")
\* utils.py 52-56: a click timeout is caught and the attempt goes on
Click == \E clicked \in {"ok", "PlaywrightTimeoutError"} : Advance("click", "wait5")
\* utils.py 60
Wait5 == Advance("wait5", "close")

EndAttempt(how, value) ==
    /\ result' = value
    /\ outcome' = [outcome EXCEPT ![attempt] = how]
    /\ acc' = [acc EXCEPT ![attempt] = m3u8_links]
    /\ seenEnd' = [seenEnd EXCEPT ![attempt] = seen]

\* utils.py 62-64
Close ==
    /\ step = "close"
    /\ EndAttempt("completed", List(m3u8_links))
    /\ step' = AfterAttempt(attempt)
    /\ UNCHANGED <<attempt, m3u8_links, ret, attempts, sessions, seen>>

\* an awaited call of try_navigate raises; utils.py 66-71 handle it
Raise ==
    /\ step \in TrySteps
    /\ \E exc \in Exceptions :
          /\ ~(step = "click" /\ exc = "PlaywrightTimeoutError")
          /\ LET h == except_return(exc, m3u8_links) IN
                IF h.caught
                THEN /\ EndAttempt(exc, h.value)
                     /\ step' = AfterAttempt(attempt)
                     /\ ret' = ret
                ELSE /\ EndAttempt(exc, None)
                     /\ step' = "raised"
                     /\ ret' = None
    /\ UNCHANGED <<attempt, m3u8_links, attempts, sessions, seen>>

\* utils.py 74-75
ReturnFirst ==
    /\ step = "decide"
    /\ returns_first(result)
    /\ ret' = result
    /\ step' = "done"
    /\ UNCHANGED <<attempt, m3u8_links, result, attempts, sessions, seen, outcome, acc, seenEnd>>

\* utils.py 77-78
Retry ==
    /\ step = "decide"
    /\ ~returns_first(result)
    /\ StartAttempt(2, Timeout2)
    /\ UNCHANGED <<result, ret, sessions, outcome, acc, seenEnd>>

\* utils.py 79
ReturnFinal ==
    /\ step = "final"
    /\ ret' = final_result(result)
    /\ step' = "done"
    /\ UNCHANGED <<attempt, m3u8_links, result, attempts, sessions, seen, outcome, acc, seenEnd>>

ExtractAtCall ==
    /\ step = "call"
    /\ attempt = 0
    /\ m3u8_links = <<>>
    /\ result = None
    /\ ret = Pending
    /\ attempts = <<>>
    /\ sessions = 0
    /\ seen = <<>>
    /\ outcome = [a \in 1..2 |-> "not_run"]
    /\ acc = [a \in 1..2 |-> <<>>]
    /\ seenEnd = [a \in 1..2 |-> <<>>]

-----------------------------------------------------------------------------
(* compress_video *)

\* utils_compression_bkp.py 136-144
C_Start ==
    /\ cpc = "start"
    /\ IF ~inputExists
       THEN /\ cret' = "False" /\ cwhy' = "input_missing" /\ cpc' = "returned"
            /\ input_size' = input_size
       ELSE /\ input_size' = inputBytes /\ cpc' = "probe"
            /\ UNCHANGED <<cret, cwhy>>
    /\ UNCHANGED <<inputExists, inputBytes, outputExists, outputBytes, output_size,
                   encoderRuns, inputBefore, bytesBefore, probed, rc>>

\* utils_compression_bkp.py 146-149 with get_video_duration 115-123:
\* ffmpeg.Error gives None; any other exception reaches line 193
C_Probe ==
    /\ cpc = "probe"
    /\ \E probe \in {"ok", "ffmpeg.Error", "Exception"} :
          /\ probed' = probe
          /\ CASE probe = "ok" -> cpc' = "encode" /\ UNCHANGED <<cret, cwhy>>
               [] probe = "ffmpeg.Error" ->
                    cret' = "False" /\ cwhy' = "probe_failed" /\ cpc' = "returned"
               [] OTHER ->
                    cret' = "False" /\ cwhy' = "exception" /\ cpc' = "returned"
    /\ UNCHANGED <<inputExists, inputBytes, outputExists, outputBytes, input_size,
                   output_size, encoderRuns, inputBefore, bytesBefore, rc>>

\* utils_compression_bkp.py 151-177: the encoder runs with -y; it may not start
\* at all (subprocess.run raises), exit non-zero (leaving no, or a partial,
\* output) or exit zero having written the output
C_Encode ==
    /\ cpc = "encode"
    /\ \/ /\ cret' = "False" /\ cwhy' = "exception" /\ cpc' = "returned"
          /\ UNCHANGED <<outputExists, outputBytes, encoderRuns, rc>>
       \/ /\ encoderRuns' = encoderRuns + 1
          /\ rc' = "nonzero"
          /\ cret' = "False" /\ cwhy' = "encoder_failed" /\ cpc' = "returned"
          /\ \/ UNCHANGED <<outputExists, outputBytes>>
             \/ \E sz \in 0..MaxBytes : outputExists' = TRUE /\ outputBytes' = sz
       \/ /\ encoderRuns' = encoderRuns + 1
          /\ \E sz \in 0..MaxBytes : outputExists' = TRUE /\ outputBytes' = sz
          /\ rc' = "zero"
          /\ cpc' = "measure"
          /\ UNCHANGED <<cret, cwhy>>
    /\ UNCHANGED <<inputExists, inputBytes, input_size, output_size, inputBefore,
                   bytesBefore, probed>>

\* utils_compression_bkp.py 179-183
C_Measure ==
    /\ cpc = "measure"
    /\ output_size' = outputBytes
    /\ cpc' = "remove"
    /\ UNCHANGED <<inputExists, inputBytes, outputExists, outputBytes, input_size,
                   cret, encoderRuns, cwhy, inputBefore, bytesBefore, probed, rc>>

\* utils_compression_bkp.py 185-186
C_Remove ==
    /\ cpc = "remove"
    /\ IF inputExists
       THEN inputExists' = FALSE /\ inputBytes' = 0
       ELSE UNCHANGED <<inputExists, inputBytes>>
    /\ cpc' = "compare"
    /\ UNCHANGED <<outputExists, outputBytes, input_size, output_size, cret,
                   encoderRuns, cwhy, inputBefore, bytesBefore, probed, rc>>

not_smaller_strictly(out, inp) == out > inp

\* utils_compression_bkp.py 188: `if output_size >= input_size`; both sizes
\* are byte counts divided by 1024 * 1024, which keeps their order
not_smaller(out, inp) == out >= inp

\* utils_compression_bkp.py 188-192
C_Compare ==
    /\ cpc = "compare"
    /\ IF not_smaller(output_size, input_size)
       THEN cret' = "False" /\ cwhy' = "not_smaller"
       ELSE cret' = "True" /\ cwhy' = "success"
    /\ cpc' = "returned"
    /\ UNCHANGED <<inputExists, inputBytes, outputExists, outputBytes, input_size,
                   output_size, encoderRuns, inputBefore, bytesBefore, probed, rc>>

CompressAtCall ==
    /\ cpc = "start"
    /\ inputExists \in BOOLEAN
    /\ inputBytes \in IF inputExists THEN 1..MaxBytes ELSE {0}
    /\ outputExists \in BOOLEAN
    /\ outputBytes \in IF outputExists THEN 1..MaxBytes ELSE {0}
    /\ input_size = 0
    /\ output_size = 0
    /\ cret = "pending"
    /\ encoderRuns = 0
    /\ cwhy = "running"
    /\ inputBefore = inputExists
    /\ bytesBefore = inputBytes
    /\ probed = "none"
    /\ rc = "none"

CompressIdle ==
    /\ CompressAtCall
    /\ ~inputExists
    /\ ~outputExists

-----------------------------------------------------------------------------
(* The service: app/main.py on one asyncio event loop *)

Ids == {"job1", "job2"}

\* main.py 39, 79: DATA_DIR/downloads/{id}_futebol.mp4
raw_file(id) == <<"downloads", id>>
\* main.py 83: DATA_DIR/tiktok/tiktok_{id}_futebol.mp4
tiktok_file(id) == <<"tiktok", id>>

Paths == {raw_file(id) : id \in Ids} \cup {tiktok_file(id) : id \in Ids}

\* A file records which request's tool run wrote it and whether the run finished it.
Absent == [exists |-> FALSE, by |-> 0, whole |-> FALSE]
Written(r, whole) == [exists |-> TRUE, by |-> r, whole |-> whole]

\* the files present in CONFIG_DIR
ConfigDir == {"fut_bg.png", "fut_fg_borda.png", "SuperCreamy-OGAPp.ttf",
              "JackportRegularNcv-BeY3.ttf"}

\* the asset names a /tiktok/process request may carry
AssetChoices ==
    [background : {"fut_bg.png", "no_bg.png"},
     foreground : {"fut_fg_borda.png", "no_fg.png"},
     font_1 : {"SuperCreamy-OGAPp.ttf", "no_1.ttf"},
     font_2 : {"JackportRegularNcv-BeY3.ttf", "no_2.ttf"}]

NoAssets == [background |-> "", foreground |-> "", font_1 |-> "", font_2 |-> ""]

\* the values try_navigate can hand back inside a /process request
TryResults == { None, List(<<>>), List(<< <<"cdn/a", ".m3u8">> >>),
                List(<< <<"cdn/b", ".m3u8", "?t=1">>, <<"cdn/a", ".m3u8">> >>) }

NoReq == [ep |-> "none", id |-> "none", pc |-> "idle", assets |-> NoAssets,
          links |-> <<>>, run |-> "none", ok |-> FALSE, spawned |-> 0,
          dl |-> <<>>, touched |-> FALSE, inputSeen |-> FALSE, outExisted |-> FALSE]

NoResponse == [req |-> 0, status |-> "none", frame |-> NoReq]
Response(r, status, frame) == [req |-> r, status |-> status, frame |-> frame]

Requests == 1..MaxRequests

scheduled_anytime(r) == TRUE

\* main.py 29-50, 73-126: the handlers are coroutines on one event loop and
\* block it (subprocess.run, os.*) everywhere but at the one await, line 34:
\* a handler runs only while every other one is unstarted or suspended there
scheduled(r) == \A q \in Requests \ {r} : reqs[q].pc \in {"idle", "awaiting"}

cleanup_skipped(fs, path) == fs

\* main.py 48-49, 124-125: if os.path.exists(output_file): os.remove(output_file)
cleanup(fs, path) == IF fs[path].exists THEN [fs EXCEPT ![path] = Absent] ELSE fs

download_arg_last(links) == links[Len(links)]

\* main.py 40: m3u8_links[0]
download_arg(links) == links[1]

config_paths_short(a) == <<a.background, a.foreground, a.font_1>>

\* main.py 86-91: the four paths the loop checks
config_paths(a) == <<a.background, a.foreground, a.font_1, a.font_2>>

\* os.path.exists of a file in CONFIG_DIR
config_exists(name) == name \in ConfigDir

\* utils.py 92-112: ffmpeg -y ... output_file; True iff the run exits zero.
\* `run` is what the tool does: "ok", "fail" (before it opens the output),
\* "fail_partial" (after it began writing) or "raise" (subprocess.run raises)
download_m3u8(fs, path, r, run) ==
    CASE run = "ok" -> [fs |-> [fs EXCEPT ![path] = Written(r, TRUE)], ok |-> TRUE]
      [] run = "fail_partial" ->
            [fs |-> [fs EXCEPT ![path] = Written(r, FALSE)], ok |-> FALSE]
      [] OTHER -> [fs |-> fs, ok |-> FALSE]

\* main.py 97-116: ffmpeg without -y. When the output file exists the tool asks
\* on stdin whether to overwrite and exits non-zero, leaving the file, unless
\* the answer is yes (`confirm`); a missing input makes it exit non-zero.
compose(fs, inp, out, r, run, confirm) ==
    CASE run = "raise" -> [fs |-> fs, ok |-> FALSE]
      [] fs[out].exists /\ ~confirm -> [fs |-> fs, ok |-> FALSE]
      [] run = "ok" /\ fs[inp].exists ->
            [fs |-> [fs EXCEPT ![out] = Written(r, TRUE)], ok |-> TRUE]
      [] run = "fail_partial" /\ fs[inp].exists ->
            [fs |-> [fs EXCEPT ![out] = Written(r, FALSE)], ok |-> FALSE]
      [] OTHER -> [fs |-> fs, ok |-> FALSE]

ToolRuns == {"ok", "fail", "fail_partial", "raise"}

\* one step of request r: its frame goes on as `frame`, the disk becomes `fs`
Continue(r, frame, fs) ==
    /\ files' = fs
    /\ reqs' = [reqs EXCEPT ![r] = [frame EXCEPT !.touched = @ \/ (fs # files)]]
    /\ last' = NoResponse
    /\ n' = n

\* the last step of request r: it answers `status` and its frame is dropped
Respond(r, status, frame, fs) ==
    /\ files' = fs
    /\ reqs' = [reqs EXCEPT ![r] = NoReq]
    /\ last' = Response(r, status, [frame EXCEPT !.touched = @ \/ (fs # files)])
    /\ n' = n

\* main.py 29-34: POST /process arrives, runs to `await extract_m3u8(req.url)`
P_Enter ==
    /\ n < MaxRequests
    /\ scheduled(n + 1)
    /\ \E id \in Ids :
          reqs' = [reqs EXCEPT ![n + 1] =
                      [NoReq EXCEPT !.ep = "process", !.id = id, !.pc = "awaiting"]]
    /\ n' = n + 1
    /\ last' = NoResponse
    /\ files' = files

\* main.py 34-37: extract_m3u8 returns; `if not m3u8_links` answers at once
P_Resume ==
    \E r \in Requests :
       /\ reqs[r].pc = "awaiting"
       /\ scheduled(r)
       /\ \E r1 \in TryResults, r2 \in TryResults :
             LET m3u8 == extract_m3u8(r1, r2) IN
             IF m3u8.isNone \/ m3u8.links = <<>>
             THEN Respond(r, "no_links", [reqs[r] EXCEPT !.links = m3u8.links], files)
             ELSE Continue(r, [reqs[r] EXCEPT !.pc = "p_download",
                                              !.links = m3u8.links], files)

\* main.py 39-40: download_m3u8(m3u8_links[0], output_file)
P_Download ==
    \E r \in Requests :
       /\ reqs[r].pc = "p_download"
       /\ scheduled(r)
       /\ \E run \in ToolRuns :
             LET out == raw_file(reqs[r].id)
                 d == download_m3u8(files, out, r, run) IN
             Continue(r, [reqs[r] EXCEPT !.pc = "p_respond",
                                         !.dl = Append(@, download_arg(reqs[r].links)),
                                         !.spawned = @ + 1,
                                         !.run = run,
                                         !.outExisted = files[out].exists,
                                         !.ok = d.ok], d.fs)

\* main.py 45-50
P_Respond ==
    \E r \in Requests :
       /\ reqs[r].pc = "p_respond"
       /\ scheduled(r)
       /\ IF reqs[r].ok
          THEN Respond(r, "success", reqs[r], files)
          ELSE Respond(r, "download_failed", reqs[r], cleanup(files, raw_file(reqs[r].id)))

\* main.py 73-77: POST /tiktok/process arrives
T_Enter ==
    /\ n < MaxRequests
    /\ scheduled(n + 1)
    /\ \E id \in Ids, a \in AssetChoices :
          reqs' = [reqs EXCEPT ![n + 1] =
                      [NoReq EXCEPT !.ep = "tiktok", !.id = id, !.assets = a,
                                    !.pc = "t_check_input"]]
    /\ n' = n + 1
    /\ last' = NoResponse
    /\ files' = files

\* main.py 79-81
T_CheckInput ==
    \E r \in Requests :
       /\ reqs[r].pc = "t_check_input"
       /\ scheduled(r)
       /\ IF ~files[raw_file(reqs[r].id)].exists
          THEN Respond(r, "404_input", reqs[r], files)
          ELSE Continue(r, [reqs[r] EXCEPT !.pc = "t_check_config",
                                           !.inputSeen = TRUE], files)

\* main.py 83-93
T_CheckConfig ==
    \E r \in Requests :
       /\ reqs[r].pc = "t_check_config"
       /\ scheduled(r)
       /\ LET ps == config_paths(reqs[r].assets) IN
          IF \E i \in DOMAIN ps : ~config_exists(ps[i])
          THEN Respond(r, "404_config", reqs[r], files)
          ELSE Continue(r, [reqs[r] EXCEPT !.pc = "t_ffmpeg"], files)

\* main.py 95-116: the media tool is started on input_file
T_Ffmpeg ==
    \E r \in Requests :
       /\ reqs[r].pc = "t_ffmpeg"
       /\ scheduled(r)
       /\ \E run \in ToolRuns, confirm \in BOOLEAN :
             LET inp == raw_file(reqs[r].id)
                 out == tiktok_file(reqs[r].id)
                 c == compose(files, inp, out, r, run, confirm) IN
             Continue(r, [reqs[r] EXCEPT !.pc = "t_respond",
                                         !.spawned = @ + 1,
                                         !.run = run,
                                         !.outExisted = files[out].exists,
                                         !.ok = c.ok], c.fs)

\* main.py 118-126
T_Respond ==
    \E r \in Requests :
       /\ reqs[r].pc = "t_respond"
       /\ scheduled(r)
       /\ IF reqs[r].ok
          THEN Respond(r, "success", reqs[r], files)
          ELSE Respond(r, "processing_failed", reqs[r], cleanup(files, tiktok_file(reqs[r].id)))

ServiceAtBoot ==
    /\ files = [p \in Paths |-> Absent]
    /\ reqs = [r \in Requests |-> NoReq]
    /\ n = 0
    /\ last = NoResponse

-----------------------------------------------------------------------------
(* Specifications *)

InitExtract == ExtractAtCall /\ CompressIdle /\ ServiceAtBoot
NextExtract ==
    \/ CallFirst /\ UNCHANGED <<coVars, svVars>>
    \/ Launch /\ UNCHANGED <<coVars, svVars>>
    \/ HandleResponse /\ UNCHANGED <<coVars, svVars>>
    \/ Goto /\ UNCHANGED <<coVars, svVars>>
    \/ Wait3 /\ UNCHANGED <<coVars, svVars>>
    \/ Evaluate /\ UNCHANGED <<coVars, svVars>>
    \/ QuerySelector /\ UNCHANGED <<coVars, svVars>>
    \/ Click /\ UNCHANGED <<coVars, svVars>>
    \/ Wait5 /\ UNCHANGED <<coVars, svVars>>
    \/ Close /\ UNCHANGED <<coVars, svVars>>
    \/ Raise /\ UNCHANGED <<coVars, svVars>>
    \/ ReturnFirst /\ UNCHANGED <<coVars, svVars>>
    \/ Retry /\ UNCHANGED <<coVars, svVars>>
    \/ ReturnFinal /\ UNCHANGED <<coVars, svVars>>
SpecExtract == InitExtract /\ [][NextExtract]_vars

InitCompress == CompressAtCall /\ ExtractAtCall /\ ServiceAtBoot
NextCompress ==
    \/ C_Start /\ UNCHANGED <<exVars, svVars>>
    \/ C_Probe /\ UNCHANGED <<exVars, svVars>>
    \/ C_Encode /\ UNCHANGED <<exVars, svVars>>
    \/ C_Measure /\ UNCHANGED <<exVars, svVars>>
    \/ C_Remove /\ UNCHANGED <<exVars, svVars>>
    \/ C_Compare /\ UNCHANGED <<exVars, svVars>>
SpecCompress == InitCompress /\ [][NextCompress]_vars

Init == ServiceAtBoot /\ ExtractAtCall /\ CompressIdle
Next ==
    \/ P_Enter /\ UNCHANGED <<exVars, coVars>>
    \/ P_Resume /\ UNCHANGED <<exVars, coVars>>
    \/ P_Download /\ UNCHANGED <<exVars, coVars>>
    \/ P_Respond /\ UNCHANGED <<exVars, coVars>>
    \/ T_Enter /\ UNCHANGED <<exVars, coVars>>
    \/ T_CheckInput /\ UNCHANGED <<exVars, coVars>>
    \/ T_CheckConfig /\ UNCHANGED <<exVars, coVars>>
    \/ T_Ffmpeg /\ UNCHANGED <<exVars, coVars>>
    \/ T_Respond /\ UNCHANGED <<exVars, coVars>>
Spec == Init /\ [][Next]_vars

-----------------------------------------------------------------------------
(* Properties of extract_m3u8, checked under SpecExtract *)

FirstAttemptHit == outcome[1] = "completed" /\ acc[1] # <<>>

\* C1: when attempt 1 (60 s) completes with a non-empty accumulator, attempt 2
\* is never started and only one browser is launched; in every other case the
\* call, once it has returned, has started attempt 2 (90 s) exactly once; no
\* third attempt is ever started.
C1_RetryPolicy ==
    /\ Len(attempts) <= 2
    /\ sessions <= Len(attempts)
    /\ FirstAttemptHit => attempts = <<Timeout1>> /\ sessions = 1
    /\ (step = "done" /\ ~FirstAttemptHit) => attempts = <<Timeout1, Timeout2>>

C1_Witness == step = "done" /\ FirstAttemptHit /\ attempts = <<Timeout1>>

NoManifestSeen ==
    \A a \in 1..2 : \A i \in DOMAIN seenEnd[a] : ~IsManifest(seenEnd[a][i])

\* C2: extract_m3u8 never raises and never hands back None: whatever the two
\* attempts did (completed with or without links, navigation timeout, any other
\* exception) the caller gets a list, the empty one when neither attempt
\* observed a manifest URL; short of returning, the call can always go on.
C2_AlwaysAList ==
    /\ step # "raised"
    /\ step = "done" => /\ ~ret.isNone
                        /\ NoManifestSeen => ret.links = <<>>
    /\ step # "done" => ENABLED NextExtract

C2_Witness ==
    /\ step = "done"
    /\ outcome[1] = "PlaywrightTimeoutError"
    /\ outcome[2] = "Exception"
    /\ ret = List(<<>>)

Manifests(s) == SelectSeq(s, IsManifest)

\* C7 as stated: the returned list never holds the same URL twice.
C7_Distinct ==
    step = "done" =>
       \A i \in DOMAIN ret.links : \A j \in DOMAIN ret.links :
          ret.links[i] = ret.links[j] => i = j

\* C7, amended: a list returned from an attempt that completed holds the
\* manifest URLs of that attempt's responses in the order they were observed,
\* one entry per matching response, repeated URLs included.
C7_ObservationOrder ==
    (step = "done" /\ outcome[attempt] = "completed") =>
       ret.links = Manifests(seenEnd[attempt])

C7_Witness ==
    /\ step = "done"
    /\ Len(ret.links) = 2
    /\ ret.links[1] = ret.links[2]

\* C10: the value returned is attempt 1's accumulator when attempt 1 completed
\* non-empty, else attempt 2's accumulator when attempt 2 completed, else the
\* empty list; the links of an attempt that raised are dropped, and attempt 2
\* runs after an attempt 1 that raised.
C10_ResultOfOutcomes ==
    step = "done" =>
       /\ ret = IF FirstAttemptHit THEN List(acc[1])
                ELSE IF outcome[2] = "completed" THEN List(acc[2])
                ELSE List(<<>>)
       /\ outcome[1] \in Exceptions => outcome[2] # "not_run"

C10_Witness ==
    /\ step = "done"
    /\ outcome[1] \in Exceptions
    /\ acc[1] # <<>>
    /\ outcome[2] = "completed"
    /\ ret = List(<<>>)

-----------------------------------------------------------------------------
(* Properties of compress_video, checked under SpecCompress *)

\* C3: the input file is deleted if and only if compress_video returns True;
\* after every failing call the input that existed before still exists.
C3_InputDeletedIffSuccess ==
    cpc = "returned" => ((inputBefore /\ ~inputExists) <=> cret = "True")

\* C11: compress_video returns True if and only if the input existed, the
\* duration probe succeeded, the encoder exited zero and the output is strictly
\* smaller than the input was; the encoder is never started when the input is
\* missing or the probe failed; a zero-exit encode whose output is as large as
\* the input or larger returns False.
C11_SuccessIff ==
    /\ encoderRuns > 0 => inputBefore /\ probed = "ok"
    /\ cpc = "returned" =>
          /\ cret = "True" <=> /\ inputBefore
                                /\ probed = "ok"
                                /\ rc = "zero"
                                /\ outputExists
                                /\ outputBytes < bytesBefore
          /\ (rc = "zero" /\ outputBytes >= bytesBefore) => cret = "False"

C11_Witness ==
    /\ cpc = "returned"
    /\ rc = "zero"
    /\ outputBytes = bytesBefore
    /\ cret = "False"

-----------------------------------------------------------------------------
(* Properties of the service, checked under Spec *)

AssetMissing(a) ==
    \/ a.background \notin ConfigDir
    \/ a.foreground \notin ConfigDir
    \/ a.font_1 \notin ConfigDir
    \/ a.font_2 \notin ConfigDir

TiktokAnswered == last.status # "none" /\ last.frame.ep = "tiktok"
ProcessAnswered == last.status # "none" /\ last.frame.ep = "process"

\* C4: a /tiktok/process request whose source video or one of whose four asset
\* files does not exist is answered 404 without having started the media tool
\* and without having created or removed a file; the tool is only ever started
\* by a request whose four assets exist.
C4_FailFast ==
    /\ \A r \in Requests :
          reqs[r].spawned > 0 /\ reqs[r].ep = "tiktok" => ~AssetMissing(reqs[r].assets)
    /\ (/\ TiktokAnswered
        /\ \/ ~files[raw_file(last.frame.id)].exists
           \/ AssetMissing(last.frame.assets))
       => /\ last.status \in {"404_input", "404_config"}
          /\ last.frame.spawned = 0
          /\ ~last.frame.touched

C4_Witness ==
    /\ last.status = "404_config"
    /\ last.frame.assets.background \in ConfigDir
    /\ last.frame.assets.foreground \in ConfigDir
    /\ last.frame.assets.font_1 \in ConfigDir
    /\ last.frame.assets.font_2 \notin ConfigDir
    /\ files[tiktok_file(last.frame.id)].exists

\* C5: when /process answers "download failed" the file {id}_futebol.mp4 does
\* not exist, and when /tiktok/process answers "processing failed" the file
\* tiktok_{id}_futebol.mp4 does not exist, partial output or not.
C5_NoOutputAfterFailure ==
    /\ last.status = "download_failed" => ~files[raw_file(last.frame.id)].exists
    /\ last.status = "processing_failed" => ~files[tiktok_file(last.frame.id)].exists

C5_Witness ==
    /\ last.status \in {"download_failed", "processing_failed"}
    /\ last.frame.run = "fail_partial"
    /\ last.frame.touched

OutputOf(frame) ==
    IF frame.ep = "process" THEN raw_file(frame.id) ELSE tiktok_file(frame.id)

\* C6: a later request with the same id overwrites the prior output file: a
\* request that found its output file already there, and whose tool run had
\* nothing else against it, answers success and leaves its own artifact.
C6_LaterRequestOverwrites ==
    (last.frame.outExisted /\ last.frame.run = "ok") =>
       /\ last.status = "success"
       /\ files[OutputOf(last.frame)] = Written(last.req, TRUE)

\* C8: a /process request whose extraction is empty answers the no-links error
\* without calling the downloader and without creating, overwriting or deleting
\* a file; one whose extraction is not empty calls the downloader exactly once,
\* on the first URL of the list.
C8_NoLinksNoEffect ==
    ProcessAnswered =>
       /\ last.frame.links = <<>> <=> last.status = "no_links"
       /\ last.frame.links = <<>> =>
             /\ last.frame.dl = <<>>
             /\ last.frame.spawned = 0
             /\ ~last.frame.touched
       /\ last.frame.links # <<>> => last.frame.dl = << last.frame.links[1] >>

C8_Witness ==
    /\ last.status = "no_links"
    /\ files[raw_file(last.frame.id)] \in {Written(r, TRUE) : r \in Requests}

\* C9: whenever tiktok_process is about to start the media tool on
\* {id}_futebol.mp4 the file exists, whatever other requests are in flight.
C9_InputStillThere ==
    \A r \in Requests :
       reqs[r].pc = "t_ffmpeg" => files[raw_file(reqs[r].id)].exists

C9_Witness ==
    \E r \in Requests, q \in Requests :
       /\ reqs[r].pc = "t_ffmpeg"
       /\ reqs[q].pc = "awaiting"
       /\ reqs[q].id = reqs[r].id

====
